---- MODULE Spec2Model ----
(***************************************************************************)
(* The two serverless scraping endpoints of brainrotscraper:               *)
(*   /scrape          (static fetch, fetchWithLimits)                      *)
(*   /scrape-dynamic  (headless browser render, scrapeWithPuppeteer)       *)
(* with the URL admission guard validateUrl they share.                    *)
(***************************************************************************)
EXTENDS Integers, Sequences, FiniteSets, TLC

(***************************************************************************)
(* Bounds of the model.                                                    *)
(***************************************************************************)
\* number of handler invocations that can be in flight on one instance
MaxSlots == 2
\* number of requests served in one behaviour
MaxRequests == 2
\* number of body chunks the upstream sends at most
MaxChunks == 3
\* granularity of the clock, in ms, and number of clock steps per fetch
TickMs == 2500
MaxTicks == 3
\* calls of handleScrape made in the page
MaxAttempts == 3

(***************************************************************************)
(* Program constants.                                                      *)
(***************************************************************************)
MAX_RESPONSE_SIZE == 1048576
\* request timeout of the static fetch, navigation timeout of the render
TIMEOUT_MS == 5000
NAVIGATION_TIMEOUT_MS == 10000

(***************************************************************************)
(* JavaScript strings. TLC strings support Len, SubSeq and \o.             *)
(***************************************************************************)
CharAt(s, i) == SubSeq(s, i, i)

\* String.prototype.indexOf for a one-character needle, 1-based; 0 = absent
IndexOf(s, c) ==
  IF \E i \in 1..Len(s) : CharAt(s, i) = c
  THEN CHOOSE i \in 1..Len(s) :
         CharAt(s, i) = c /\ \A j \in 1..(i - 1) : CharAt(s, j) # c
  ELSE 0

\* String.prototype.lastIndexOf for a one-character needle
LastIndexOf(s, c) ==
  IF \E i \in 1..Len(s) : CharAt(s, i) = c
  THEN CHOOSE i \in 1..Len(s) :
         CharAt(s, i) = c /\ \A j \in (i + 1)..Len(s) : CharAt(s, j) # c
  ELSE 0

\* String.prototype.includes
Includes(s, sub) ==
  \E i \in 1..(Len(s) - Len(sub) + 1) : SubSeq(s, i, i + Len(sub) - 1) = sub

\* regular expression anchored at the start: /^prefix/
StartsWith(s, prefix) ==
  Len(s) >= Len(prefix) /\ SubSeq(s, 1, Len(prefix)) = prefix

UpperChars == "ABCDEFGHIJKLMNOPQRSTUVWXYZ"
LowerChars == "abcdefghijklmnopqrstuvwxyz"
DigitChars == "0123456789"

LowerChar(c) ==
  LET i == IndexOf(UpperChars, c)
  IN  IF i = 0 THEN c ELSE CharAt(LowerChars, i)

RECURSIVE toLowerCase(_)
toLowerCase(s) ==
  IF Len(s) = 0 THEN ""
  ELSE IF Len(s) = 1 THEN LowerChar(s)
  ELSE toLowerCase(SubSeq(s, 1, Len(s) \div 2))
       \o toLowerCase(SubSeq(s, (Len(s) \div 2) + 1, Len(s)))

\* parseInt(s) for a string of decimal digits; -1 stands for NaN
RECURSIVE parseInt(_)
parseInt(s) ==
  IF Len(s) = 0 \/ \E i \in 1..Len(s) : IndexOf(DigitChars, CharAt(s, i)) = 0
  THEN -1
  ELSE IF Len(s) = 1 THEN IndexOf(DigitChars, s) - 1
  ELSE 10 * parseInt(SubSeq(s, 1, Len(s) - 1))
       + (IndexOf(DigitChars, CharAt(s, Len(s))) - 1)

(***************************************************************************)
(* new URL(urlString): the part of the WHATWG parser the guard depends on. *)
(* The scheme and the host are lower-cased, an IPv6 literal keeps its      *)
(* square brackets in .hostname, userinfo and port are split off the host, *)
(* and a string without a scheme, or a special scheme without a host,      *)
(* throws.                                                                 *)
(***************************************************************************)
SpecialSchemes == {"http", "https", "ftp", "ws", "wss"}

IsAlpha(c) == IndexOf(LowerChars, c) # 0 \/ IndexOf(UpperChars, c) # 0

IsSchemeChar(c) == IsAlpha(c) \/ IndexOf(DigitChars, c) # 0 \/ c \in {"+", "-", "."}

IsScheme(s) ==
  /\ Len(s) >= 1
  /\ IsAlpha(CharAt(s, 1))
  /\ \A i \in 1..Len(s) : IsSchemeChar(CharAt(s, i))

\* forbidden host code points that the inputs of the model can contain
ForbiddenHostChars == {" ", "<", ">", "[", "]", "^", "|", "%"}

RECURSIVE SkipSlashes(_)
SkipSlashes(s) ==
  IF Len(s) >= 1 /\ CharAt(s, 1) \in {"/", "\\"}
  THEN SkipSlashes(SubSeq(s, 2, Len(s)))
  ELSE s

\* the index of the first of "/", "?", "#" in s, or Len(s) + 1
AuthorityEnd(s) ==
  IF \E i \in 1..Len(s) : CharAt(s, i) \in {"/", "?", "#", "\\"}
  THEN CHOOSE i \in 1..Len(s) :
         /\ CharAt(s, i) \in {"/", "?", "#", "\\"}
         /\ \A j \in 1..(i - 1) : CharAt(s, j) \notin {"/", "?", "#", "\\"}
  ELSE Len(s) + 1

URLFailure == [ok |-> FALSE, protocol |-> "", hostname |-> "", href |-> ""]

\* host[:port] -> the serialized host, or "" when it does not parse
ParseHost(hostport) ==
  IF StartsWith(hostport, "[")
  THEN LET close == IndexOf(hostport, "]")
       IN  IF close = 0 THEN "" ELSE toLowerCase(SubSeq(hostport, 1, close))
  ELSE LET colon == IndexOf(hostport, ":")
           host  == IF colon = 0 THEN hostport ELSE SubSeq(hostport, 1, colon - 1)
       IN  IF \E i \in 1..Len(host) : CharAt(host, i) \in ForbiddenHostChars
           THEN ""
           ELSE toLowerCase(host)

\* the port part of host[:port], with its colon, or ""
ParsePort(hostport) ==
  LET from == IF StartsWith(hostport, "[") THEN IndexOf(hostport, "]") ELSE 0
      tail == SubSeq(hostport, from + 1, Len(hostport))
      colon == IndexOf(tail, ":")
  IN  IF colon = 0 \/ colon = Len(tail) THEN "" ELSE SubSeq(tail, colon, Len(tail))

URLParse(urlString) ==
  LET colon  == IndexOf(urlString, ":")
      scheme == toLowerCase(SubSeq(urlString, 1, colon - 1))
      rest   == SubSeq(urlString, colon + 1, Len(urlString))
  IN  IF colon <= 1 \/ ~IsScheme(scheme) THEN URLFailure
      ELSE IF scheme \in SpecialSchemes
      THEN LET after     == SkipSlashes(rest)
               aend      == AuthorityEnd(after)
               authority == SubSeq(after, 1, aend - 1)
               path      == SubSeq(after, aend, Len(after))
               at        == LastIndexOf(authority, "@")
               userinfo  == SubSeq(authority, 1, at)
               hostport  == SubSeq(authority, at + 1, Len(authority))
               host      == ParseHost(hostport)
           IN  IF host = "" THEN URLFailure
               ELSE [ok |-> TRUE,
                     protocol |-> scheme \o ":",
                     hostname |-> host,
                     href |-> scheme \o "://" \o userinfo \o host
                              \o ParsePort(hostport)
                              \o (IF Len(path) = 0 THEN "/" ELSE path)]
      ELSE IF StartsWith(rest, "//")
      THEN LET after     == SubSeq(rest, 3, Len(rest))
               aend      == AuthorityEnd(after)
               authority == SubSeq(after, 1, aend - 1)
               at        == LastIndexOf(authority, "@")
               hostport  == SubSeq(authority, at + 1, Len(authority))
               colonh    == IndexOf(hostport, ":")
               host      == IF StartsWith(hostport, "[") \/ colonh = 0
                            THEN hostport
                            ELSE SubSeq(hostport, 1, colonh - 1)
           IN  [ok |-> TRUE,
                protocol |-> scheme \o ":",
                hostname |-> IF scheme # "file" THEN host
                             ELSE IF toLowerCase(host) = "localhost" THEN ""
                             ELSE toLowerCase(host),
                href |-> scheme \o ":" \o rest]
      ELSE [ok |-> TRUE, protocol |-> scheme \o ":", hostname |-> "",
            href |-> scheme \o ":" \o rest]

(***************************************************************************)
(* The admission guard.                                                    *)
(***************************************************************************)
\* /^172\.(1[6-9]|2[0-9]|3[0-1])\./
Matches172(h) ==
  /\ StartsWith(h, "172.")
  /\ Len(h) >= 7
  /\ \/ CharAt(h, 5) = "1" /\ CharAt(h, 6) \in {"6", "7", "8", "9"}
     \/ CharAt(h, 5) = "2" /\ IndexOf(DigitChars, CharAt(h, 6)) # 0
     \/ CharAt(h, 5) = "3" /\ CharAt(h, 6) \in {"0", "1"}
  /\ CharAt(h, 7) = "."

\* PRIVATE_IP_RANGES.some(range => range.test(hostname))
PRIVATE_IP_RANGES(hostname) ==
  \/ StartsWith(hostname, "10.")
  \/ Matches172(hostname)
  \/ StartsWith(hostname, "192.168.")
  \/ StartsWith(hostname, "127.")
  \/ StartsWith(hostname, "169.254.")
  \/ StartsWith(hostname, "fc00:")
  \/ StartsWith(hostname, "fe80:")
  \/ hostname = "::1"
  \/ toLowerCase(hostname) = "localhost"

blockedHosts == {"localhost", "0.0.0.0", "127.0.0.1"}

Rejected(reason) == [valid |-> FALSE, error |-> reason, url |-> URLFailure]

\* the guard without its blockedHosts test
validateUrlPatternsOnly(urlString) ==
  LET url == URLParse(urlString)
      hostname == toLowerCase(url.hostname)
  IN  IF ~url.ok THEN Rejected("Invalid URL format")
      ELSE IF url.protocol \notin {"http:", "https:"}
      THEN Rejected("Only HTTP and HTTPS URLs are allowed")
      ELSE IF PRIVATE_IP_RANGES(hostname)
      THEN Rejected("Private IP addresses are not allowed")
      ELSE [valid |-> TRUE, error |-> "", url |-> url]

\* the guard with the host checks made before the scheme check
validateUrlHostFirst(urlString) ==
  LET url == URLParse(urlString)
      hostname == toLowerCase(url.hostname)
  IN  IF ~url.ok THEN Rejected("Invalid URL format")
      ELSE IF PRIVATE_IP_RANGES(hostname)
      THEN Rejected("Private IP addresses are not allowed")
      ELSE IF hostname \in blockedHosts
      THEN Rejected("This hostname is not allowed")
      ELSE IF url.protocol \notin {"http:", "https:"}
      THEN Rejected("Only HTTP and HTTPS URLs are allowed")
      ELSE [valid |-> TRUE, error |-> "", url |-> url]

validateUrl(urlString) ==
  LET url == URLParse(urlString)
      hostname == toLowerCase(url.hostname)
  IN  IF ~url.ok THEN Rejected("Invalid URL format")
      ELSE IF url.protocol \notin {"http:", "https:"}
      THEN Rejected("Only HTTP and HTTPS URLs are allowed")
      ELSE IF PRIVATE_IP_RANGES(hostname)
      THEN Rejected("Private IP addresses are not allowed")
      ELSE IF hostname \in blockedHosts
      THEN Rejected("This hostname is not allowed")
      ELSE [valid |-> TRUE, error |-> "", url |-> url]

\* the url query parameters requests of the model carry
RawUrls ==
  { "http://example.com",
    "https://Example.COM/docs?page=2",
    "http://172.32.0.1/",
    "http://192.168.1.1",
    "http://10.0.0.5/",
    "https://172.16.0.1/",
    "http://127.0.0.1:8080/",
    "http://user@127.0.0.1/",
    "http://169.254.169.254/latest",
    "http://LocalHost/",
    "http://0.0.0.0/",
    "http://[::1]/",
    "http://[FE80::1]:3000/",
    "https://[fc00::1]/",
    "http://[fd12:3456::1]/",
    "ftp://x",
    "ftp://10.0.0.5/",
    "file:///etc/passwd",
    "javascript:alert(1)",
    "not a url",
    "http://",
    "" }


\* String(n) for a natural number, as template literals format it
RECURSIVE numberToString(_)
numberToString(n) ==
  IF n < 10 THEN CharAt(DigitChars, n + 1)
  ELSE numberToString(n \div 10) \o CharAt(DigitChars, (n % 10) + 1)

(***************************************************************************)
(* Requests, responses, errors.                                            *)
(***************************************************************************)
Slots == 1..MaxSlots

Methods == {"GET", "OPTIONS", "POST"}

\* req.query: url is absent, or a string
NoQuery == [present |-> FALSE, url |-> ""]
Queries == {NoQuery} \cup {[present |-> TRUE, url |-> u] : u \in RawUrls}

\* a document: its length in UTF-16 code units (String.length) and in bytes
NoDoc == [units |-> 0, bytes |-> 0]

NoError == [name |-> "", message |-> ""]
Error(message) == [name |-> "Error", message |-> message]

\* a response header of the upstream: absent, or a string
Header(v) == [present |-> TRUE, value |-> v]
NoHeader == [present |-> FALSE, value |-> ""]

\* no upstream response has arrived
NoUpstream ==
  [ok |-> FALSE, status |-> "", statusText |-> "", contentType |-> NoHeader,
   contentLength |-> NoHeader]

NoResponse ==
  [status |-> 0, body |-> "none", error |-> "", details |-> "",
   html |-> NoDoc, size |-> 0, url |-> ""]

\* res.status(s).end()
EndResponse(s) == [NoResponse EXCEPT !.status = s, !.body = "empty"]

\* res.status(s).json({ error }) and res.status(s).json({ error, details })
JsonError(s, error, details) ==
  [NoResponse EXCEPT !.status = s, !.body = "error", !.error = error,
                     !.details = details]

\* res.status(200).json({ html, url, size: html.length, ... })
JsonDocument(html, href) ==
  [NoResponse EXCEPT !.status = 200, !.body = "document", !.html = html,
                     !.size = html.units, !.url = href]

\* HandlerGate without the guard: the url goes to the retriever unvalidated
HandlerGateUnguarded(method, query) ==
  IF method = "OPTIONS" THEN EndResponse(200)
  ELSE IF method # "GET" THEN JsonError(405, "Method not allowed", "")
  ELSE IF ~query.present \/ query.url = ""
  THEN JsonError(400, "URL parameter is required", "")
  ELSE NoResponse

\* the gate with the url looked at before the method
HandlerGateUrlFirst(method, query) ==
  IF ~query.present \/ query.url = ""
  THEN JsonError(400, "URL parameter is required", "")
  ELSE IF ~validateUrl(query.url).valid
  THEN JsonError(400, validateUrl(query.url).error, "")
  ELSE IF method = "OPTIONS" THEN EndResponse(200)
  ELSE IF method # "GET" THEN JsonError(405, "Method not allowed", "")
  ELSE NoResponse

\* the handlers' gate before retrieval: the response it sends, or NoResponse
\* when the request passes to the retriever
HandlerGate(method, query) ==
  IF method = "OPTIONS" THEN EndResponse(200)
  ELSE IF method # "GET" THEN JsonError(405, "Method not allowed", "")
  ELSE IF ~query.present \/ query.url = ""
  THEN JsonError(400, "URL parameter is required", "")
  ELSE IF ~validateUrl(query.url).valid
  THEN JsonError(400, validateUrl(query.url).error, "")
  ELSE NoResponse

\* the catch block of the /scrape handler
scrapeCatch(error) ==
  IF Includes(error.message, "timeout")
  THEN JsonError(504, "Request timed out", "")
  ELSE IF Includes(error.message, "too large")
  THEN JsonError(413, error.message, "")
  ELSE IF Includes(error.message, "HTTP")
  THEN JsonError(502, error.message, "")
  ELSE IF Includes(error.message, "not return HTML")
  THEN JsonError(400, error.message, "")
  ELSE JsonError(500, "Failed to scrape URL", error.message)

\* the catch block of the /scrape-dynamic handler
scrapeDynamicCatch(error) ==
  IF Includes(error.message, "timeout")
  THEN JsonError(504, "Request timed out", "")
  ELSE IF Includes(error.message, "too large")
  THEN JsonError(413, error.message, "")
  ELSE IF Includes(error.message, "net::ERR_")
  THEN JsonError(502, "Failed to load page", "")
  ELSE JsonError(500, "Failed to scrape URL with dynamic rendering",
                 error.message)

(***************************************************************************)
(* detectJsRenderedContent: the regular expressions of the heuristic, on   *)
(* strings.                                                                *)
(***************************************************************************)
\* the first index >= from at which sub occurs in s, or 0
Find(s, sub, from) ==
  LET hits == {i \in from..(Len(s) - Len(sub) + 1) :
                 SubSeq(s, i, i + Len(sub) - 1) = sub}
  IN  IF hits = {} THEN 0 ELSE CHOOSE i \in hits : \A j \in hits : i <= j

\* the characters \s matches, of those the documents of the model contain
Whitespace == {" ", "\n", "\t", "\r"}

\* .replace(/\s+/g, ' ')
\* the characters lo..hi of s, each run of whitespace replaced by one
\* space (a run is replaced where it starts)
RECURSIVE CollapseRange(_, _, _)
CollapseRange(s, lo, hi) ==
  IF lo > hi THEN ""
  ELSE IF lo = hi
  THEN IF CharAt(s, lo) \notin Whitespace THEN CharAt(s, lo)
       ELSE IF lo > 1 /\ CharAt(s, lo - 1) \in Whitespace THEN ""
       ELSE " "
  ELSE CollapseRange(s, lo, (lo + hi) \div 2)
       \o CollapseRange(s, ((lo + hi) \div 2) + 1, hi)

CollapseWhitespace(s) == CollapseRange(s, 1, Len(s))

\* String.prototype.trim
trim(s) ==
  LET text == {i \in 1..Len(s) : CharAt(s, i) \notin Whitespace}
  IN  IF text = {} THEN ""
      ELSE SubSeq(s, CHOOSE i \in text : \A j \in text : i <= j,
                     CHOOSE i \in text : \A j \in text : i >= j)

\* a match of /<name[^>]*>[\s\S]*?<\/name>/i in s, searched in its lower-cased
\* copy: where the match starts, where the captured content starts, and the
\* index after the match; start = 0 when there is no match
ElementMatch(s, lower, name, from) ==
  LET open  == Find(lower, "<" \o name, from)
      gt    == IF open = 0 THEN 0
               ELSE Find(lower, ">", open + Len(name) + 1)
      close == IF gt = 0 THEN 0
               ELSE Find(lower, "</" \o name \o ">", gt + 1)
  IN  IF close = 0 THEN [start |-> 0, inner |-> 0, close |-> 0, end |-> 0]
      ELSE [start |-> open, inner |-> gt + 1, close |-> close,
            end |-> close + Len(name) + 3]

\* .replace(/<name[^>]*>[\s\S]*?<\/name>/gi, '')
RECURSIVE RemoveElements(_, _, _, _)
RemoveElements(s, lower, name, from) ==
  LET m == ElementMatch(s, lower, name, from)
  IN  IF m.start = 0 THEN SubSeq(s, from, Len(s))
      ELSE SubSeq(s, from, m.start - 1)
           \o RemoveElements(s, lower, name, m.end)

\* .replace(/<name[^>]*>/gi, '')
RECURSIVE RemoveTags(_, _, _, _)
RemoveTags(s, lower, name, from) ==
  LET open == Find(lower, "<" \o name, from)
      gt   == IF open = 0 THEN 0 ELSE Find(lower, ">", open + Len(name) + 1)
  IN  IF gt = 0 THEN SubSeq(s, from, Len(s))
      ELSE SubSeq(s, from, open - 1) \o RemoveTags(s, lower, name, gt + 1)

jsFrameworkIndicators ==
  { "id=\"__docusaurus\"", "id=\"__next\"", "id=\"__nuxt\"", "id=\"app\"",
    "id=\"root\"", "data-reactroot", "ng-version" }

\* bodyContent with scripts, styles and link tags removed, whitespace
\* collapsed, trimmed
cleanBodyContent(bodyContent) ==
  LET noScript == RemoveElements(bodyContent, toLowerCase(bodyContent),
                                 "script", 1)
      noStyle  == RemoveElements(noScript, toLowerCase(noScript), "style", 1)
      noLink   == RemoveTags(noStyle, toLowerCase(noStyle), "link", 1)
  IN  trim(CollapseWhitespace(noLink))

\* the heuristic with the fingerprints looked at only when there is no body
detectJsRenderedContentBodyOnly(html) ==
  LET bodyMatch == ElementMatch(html, toLowerCase(html), "body", 1)
  IN  IF bodyMatch.start # 0
      THEN Len(cleanBodyContent(SubSeq(html, bodyMatch.inner,
                                       bodyMatch.close - 1))) < 100
      ELSE \E indicator \in jsFrameworkIndicators : Includes(html, indicator)

detectJsRenderedContent(html) ==
  LET bodyMatch == ElementMatch(html, toLowerCase(html), "body", 1)
  IN  IF /\ bodyMatch.start # 0
         /\ Len(cleanBodyContent(SubSeq(html, bodyMatch.inner,
                                        bodyMatch.close - 1))) < 100
      THEN TRUE
      ELSE \E indicator \in jsFrameworkIndicators : Includes(html, indicator)

\* no document is being classified; the UI is not mounted
NoDocument == [pc |-> "none"]
NoApp == [pc |-> "unmounted"]

VARIABLES req, timers, openBrowsers, openPages, launched, pagesCreated,
          served, concurrency, doc, ui

vars == <<req, timers, openBrowsers, openPages, launched, pagesCreated,
          served, concurrency, doc, ui>>

\* a slot no handler invocation occupies
Idle ==
  [pc |-> "idle", id |-> 0, endpoint |-> "", method |-> "", query |-> NoQuery,
   validation |-> Rejected(""), again |-> Rejected(""),
   \* fetchWithLimits
   fetches |-> 0, aborted |-> FALSE, ticks |-> 0, response |-> NoUpstream,
   reader |-> FALSE, stalled |-> FALSE, received |-> <<>>, totalLength |-> 0,
   chunks |-> <<>>, calls |-> <<>>,
   \* scrapeWithPuppeteer
   launches |-> 0, navigations |-> 0, browser |-> 0, page |-> 0,
   html |-> NoDoc, primary |-> NoError, pending |-> NoError,
   returning |-> FALSE, cleanup |-> <<>>, closes |-> <<>>,
   \* what the retriever did, and the response
   returned |-> FALSE, thrown |-> NoError, res |-> NoResponse, sent |-> 0]

\* nothing is in flight, no timer is pending, no browser runs; an instance
\* of the serverless function runs one invocation at a time
Init ==
  /\ req = [r \in Slots |-> Idle]
  /\ timers = {}
  /\ openBrowsers = {}
  /\ openPages = {}
  /\ launched = 0
  /\ pagesCreated = 0
  /\ served = 0
  /\ concurrency = 1
  /\ doc = NoDocument
  /\ ui = NoApp

InFlight == {r \in Slots : req[r].pc # "idle"}

\* a request can be taken by the lowest idle slot
CanAccept(r) ==
  /\ req[r].pc = "idle"
  /\ \A q \in Slots : q < r => req[q].pc # "idle"
  /\ Cardinality(InFlight) < concurrency
  /\ served < MaxRequests

\* the handler sends a response and runs on instead of returning
RespondWithoutReturn(rec, response) ==
  [rec EXCEPT !.res = response, !.sent = @ + 1]

\* the handler sends its response
Respond(rec, response) ==
  [rec EXCEPT !.pc = "responded", !.res = response, !.sent = @ + 1]

\* a handler invocation as it starts on (method, query) of an endpoint
Invocation(endpoint, method, query) ==
  [Idle EXCEPT !.id = served + 1, !.endpoint = endpoint, !.method = method,
               !.query = query]

(***************************************************************************)
(* /scrape: handler and fetchWithLimits.                                   *)
(***************************************************************************)
\* what the upstream can answer: status line and the two headers read.
\* The reason phrase is the upstream's free text (empty over HTTP/2).
StatusLines ==
  { [ok |-> TRUE, status |-> "200", statusText |-> "OK"],
    [ok |-> FALSE, status |-> "404", statusText |-> "Not Found"],
    [ok |-> FALSE, status |-> "404", statusText |-> ""],
    [ok |-> FALSE, status |-> "503", statusText |-> "Service Unavailable"],
    [ok |-> FALSE, status |-> "504", statusText |-> "Gateway timeout"],
    [ok |-> FALSE, status |-> "413", statusText |-> "Request too large"] }

ContentTypes ==
  { NoHeader, Header("text/html; charset=utf-8"),
    Header("application/xhtml+xml"), Header("application/json") }

ContentLengths ==
  { NoHeader, Header("100"), Header(numberToString(MAX_RESPONSE_SIZE)),
    Header(numberToString(MAX_RESPONSE_SIZE + 1)) }

UpstreamResponses ==
  { [ok |-> l.ok, status |-> l.status, statusText |-> l.statusText,
     contentType |-> t, contentLength |-> c] :
      l \in StatusLines, t \in ContentTypes, c \in ContentLengths }

\* body chunks: value.length in bytes, and the UTF-16 code units the bytes
\* decode to (one unit for a one-, two- or three-byte sequence)
Chunks ==
  { [length |-> 1, units |-> 1],
    [length |-> 2, units |-> 1],
    [length |-> MAX_RESPONSE_SIZE \div 2, units |-> MAX_RESPONSE_SIZE \div 2],
    [length |-> MAX_RESPONSE_SIZE, units |-> MAX_RESPONSE_SIZE] }

\* the errors fetch() and reader.read() reject with
AbortError == [name |-> "AbortError", message |-> "This operation was aborted"]
NetworkError == [name |-> "TypeError", message |-> "fetch failed"]
BodyError == [name |-> "TypeError", message |-> "terminated"]

\* ms since fetchWithLimits of slot r set its timer
Elapsed(r) == req[r].ticks * TickMs

clearTimeout(ts, timeoutId) == ts \ {timeoutId}

\* the catch block without its clearTimeout
catchKeepsTimeout(ts, timeoutId) == ts

\* catch block of fetchWithLimits: clearTimeout(timeoutId)
catchClearTimeout(ts, timeoutId) == clearTimeout(ts, timeoutId)

\* the catch block without the AbortError conversion
catchErrorRaw(error) == error

\* catch block of fetchWithLimits: the error it throws on
catchError(error) ==
  IF error.name = "AbortError" THEN Error("Request timed out") ELSE error

\* new TextDecoder().decode(uint8Array): the length of the decoded string
RECURSIVE DecodedUnits(_)
DecodedUnits(chunks) ==
  IF chunks = <<>> THEN 0
  ELSE Head(chunks).units + DecodedUnits(Tail(chunks))

\* an error is thrown inside the try block of fetchWithLimits, with the
\* locals rec and the pending timers ts: the catch block runs, fetchWithLimits rejects and the
\* handler's catch block responds
ThrowsThenRetries(r, rec, error, ts) ==
  IF rec.fetches < 2
  THEN /\ req' = [req EXCEPT ![r] =
                    [rec EXCEPT !.pc = "fetch", !.fetches = @ + 1]]
       /\ timers' = ts \cup {req[r].id}
  ELSE /\ req' = [req EXCEPT ![r] =
                    Respond([rec EXCEPT !.thrown = catchError(error)],
                            scrapeCatch(catchError(error)))]
       /\ timers' = catchClearTimeout(ts, req[r].id)

Throws(r, rec, error, ts) ==
  /\ req' = [req EXCEPT ![r] =
               Respond([rec EXCEPT !.thrown = catchError(error)],
                       scrapeCatch(catchError(error)))]
  /\ timers' = catchClearTimeout(ts, req[r].id)

\* handler of /scrape up to its first await: the gate, then fetchWithLimits
\* creates the controller, sets the timer and calls fetch
Scrape(r) ==
  /\ CanAccept(r)
  /\ \E method \in Methods, query \in Queries :
       LET inv  == Invocation("scrape", method, query)
           gate == HandlerGate(method, query)
       IN  IF gate # NoResponse
           THEN /\ req' = [req EXCEPT ![r] = Respond(inv, gate)]
                /\ timers' = timers
           ELSE /\ req' = [req EXCEPT ![r] =
                            [inv EXCEPT !.pc = "fetch",
                                        !.validation = validateUrl(query.url),
                                        !.fetches = @ + 1]]
                /\ timers' = timers \cup {inv.id}
  /\ served' = served + 1
  /\ UNCHANGED <<openBrowsers, openPages, launched, pagesCreated, concurrency, doc, ui>>

\* time passes for a fetchWithLimits in progress; a due timer fires first
Tick(r) ==
  /\ req[r].pc \in {"fetch", "read"}
  /\ req[r].ticks < MaxTicks
  /\ ~(req[r].id \in timers /\ Elapsed(r) >= TIMEOUT_MS)
  /\ req' = [req EXCEPT ![r].ticks = @ + 1]
  /\ UNCHANGED <<timers, openBrowsers, openPages, launched, pagesCreated,
                 served, concurrency, doc, ui>>

\* setTimeout(() => controller.abort(), TIMEOUT_MS) fires
TimerFire(r) ==
  /\ req[r].pc # "idle"
  /\ req[r].id \in timers
  /\ Elapsed(r) >= TIMEOUT_MS
  /\ timers' = timers \ {req[r].id}
  /\ req' = [req EXCEPT ![r].aborted = TRUE]
  /\ UNCHANGED <<openBrowsers, openPages, launched, pagesCreated, served,
                 concurrency, doc, ui>>

\* await fetch(...) rejects: with the abort error once the signal is
\* aborted, with a network error otherwise
FetchReject(r) ==
  /\ req[r].pc = "fetch"
  /\ Throws(r, req[r], IF req[r].aborted THEN AbortError ELSE NetworkError,
            timers)
  /\ UNCHANGED <<openBrowsers, openPages, launched, pagesCreated, served,
                 concurrency, doc, ui>>

\* if (!response.ok) throw ...: the error thrown, NoError when none is
statusCheck(response) ==
  IF ~response.ok
  THEN Error("HTTP " \o response.status \o ": " \o response.statusText)
  ELSE NoError

\* the content-type check: the header, or '' when it is absent, must
\* include 'text/html' or 'application/xhtml'
contentTypeCheck(response) ==
  LET contentType == IF response.contentType.present
                     THEN response.contentType.value ELSE ""
  IN  IF /\ ~Includes(contentType, "text/html")
         /\ ~Includes(contentType, "application/xhtml")
      THEN Error("URL does not return HTML content")
      ELSE NoError

\* the declared length is never looked at
contentLengthIgnored(response) == NoError

\* the content-length check: contentLength && parseInt(contentLength) > MAX
contentLengthCheck(response) ==
  LET contentLength == response.contentLength
  IN  IF /\ contentLength.present
         /\ contentLength.value # ""
         /\ parseInt(contentLength.value) > MAX_RESPONSE_SIZE
      THEN Error("Response too large (" \o contentLength.value
                 \o " bytes, max " \o numberToString(MAX_RESPONSE_SIZE)
                 \o " bytes)")
      ELSE NoError

\* the checks with the declared length looked at before the content type
headerChecksLengthFirst(response) ==
  IF statusCheck(response) # NoError THEN statusCheck(response)
  ELSE IF contentLengthCheck(response) # NoError
  THEN contentLengthCheck(response)
  ELSE contentTypeCheck(response)

\* the checks between fetch() resolving and response.body.getReader(), in
\* the order of the code: the first error thrown, NoError when all pass
headerChecks(response) ==
  IF statusCheck(response) # NoError THEN statusCheck(response)
  ELSE IF contentTypeCheck(response) # NoError
  THEN contentTypeCheck(response)
  ELSE contentLengthCheck(response)

\* await fetch(...) resolves with the response headers: the timer is
\* cleared, status, content type and declared length are checked, and the
\* body reader is obtained
FetchResolve(r) ==
  /\ req[r].pc = "fetch"
  /\ ~req[r].aborted
  /\ \E response \in UpstreamResponses :
       LET cleared == clearTimeout(timers, req[r].id)
           rec     == [req[r] EXCEPT !.response = response]
           error   == headerChecks(response)
       IN  IF error # NoError
           THEN Throws(r, rec, error, cleared)
           ELSE /\ req' = [req EXCEPT ![r] =
                            [rec EXCEPT !.pc = "read", !.reader = TRUE]]
                /\ timers' = cleared
  /\ UNCHANGED <<openBrowsers, openPages, launched, pagesCreated, served,
                 concurrency, doc, ui>>

\* the read loop with the comparison made before the chunk's length is added
ReadChunkCompareFirst(r) ==
  /\ req[r].pc = "read"
  /\ ~req[r].stalled
  /\ Len(req[r].chunks) < MaxChunks
  /\ \E value \in Chunks :
       LET rec == [req[r] EXCEPT !.received = Append(@, value)]
       IN  IF req[r].totalLength > MAX_RESPONSE_SIZE
           THEN Throws(r, rec,
                       Error("Response too large (max "
                             \o numberToString(MAX_RESPONSE_SIZE)
                             \o " bytes)"), timers)
           ELSE /\ req' = [req EXCEPT ![r] =
                            [rec EXCEPT !.totalLength = @ + value.length,
                                        !.chunks = Append(@, value)]]
                /\ timers' = timers
  /\ UNCHANGED <<openBrowsers, openPages, launched, pagesCreated, served,
                 concurrency, doc, ui>>

\* await reader.read() resolves with a chunk
ReadChunk(r) ==
  /\ req[r].pc = "read"
  /\ ~req[r].stalled
  /\ Len(req[r].chunks) < MaxChunks
  /\ \E value \in Chunks :
       LET totalLength == req[r].totalLength + value.length
           rec         == [req[r] EXCEPT !.received = Append(@, value),
                                         !.totalLength = totalLength]
       IN  IF totalLength > MAX_RESPONSE_SIZE
           THEN Throws(r, rec,
                       Error("Response too large (max "
                             \o numberToString(MAX_RESPONSE_SIZE)
                             \o " bytes)"), timers)
           ELSE /\ req' = [req EXCEPT ![r] =
                            [rec EXCEPT !.chunks = Append(@, value)]]
                /\ timers' = timers
  /\ UNCHANGED <<openBrowsers, openPages, launched, pagesCreated, served,
                 concurrency, doc, ui>>

\* await reader.read() resolves with done: the chunks are joined and
\* decoded, fetchWithLimits returns html and the handler responds 200
ReadDone(r) ==
  /\ req[r].pc = "read"
  /\ ~req[r].stalled
  /\ LET html == [units |-> DecodedUnits(req[r].chunks),
                  bytes |-> req[r].totalLength]
     IN  req' = [req EXCEPT ![r] =
                   Respond([@ EXCEPT !.returned = TRUE, !.html = html],
                           JsonDocument(html, @.validation.url.href))]
  /\ UNCHANGED <<timers, openBrowsers, openPages, launched, pagesCreated,
                 served, concurrency, doc, ui>>

\* await reader.read() rejects: the connection broke while the body streamed
ReadError(r) ==
  /\ req[r].pc = "read"
  /\ ~req[r].stalled
  /\ Throws(r, req[r], BodyError, timers)
  /\ UNCHANGED <<openBrowsers, openPages, launched, pagesCreated, served,
                 concurrency, doc, ui>>

\* the upstream stops sending: the pending reader.read() never completes
BodyStall(r) ==
  /\ req[r].pc = "read"
  /\ ~req[r].stalled
  /\ req' = [req EXCEPT ![r].stalled = TRUE]
  /\ UNCHANGED <<timers, openBrowsers, openPages, launched, pagesCreated,
                 served, concurrency, doc, ui>>

(***************************************************************************)
(* /scrape-dynamic: handler and scrapeWithPuppeteer.                       *)
(***************************************************************************)
\* documents page.content() can return: a small page, pages of exactly the
\* ceiling in characters (ASCII, and three-byte characters), a page above it
RenderedDocs ==
  { [units |-> 4096, bytes |-> 4096],
    [units |-> MAX_RESPONSE_SIZE, bytes |-> MAX_RESPONSE_SIZE],
    [units |-> MAX_RESPONSE_SIZE, bytes |-> 3 * MAX_RESPONSE_SIZE],
    [units |-> MAX_RESPONSE_SIZE + 1, bytes |-> MAX_RESPONSE_SIZE + 1] }

\* the errors puppeteer rejects with
LaunchError == Error("Failed to launch the browser process!")
ProtocolError(method) ==
  Error("Protocol error (" \o method \o "): Target closed")
NavigationTimeout ==
  [name |-> "TimeoutError",
   message |-> "Navigation timeout of "
               \o numberToString(NAVIGATION_TIMEOUT_MS) \o " ms exceeded"]
NavigationError(url) == Error("net::ERR_NAME_NOT_RESOLVED at " \o url)
NotAFunction == [name |-> "TypeError",
                 message |-> "page.waitForTimeout is not a function"]

\* a finally block that closes the browser only together with a page
finallyBlockNested(page, browser) ==
  IF page # 0 THEN <<"closePage", "closeBrowser">> ELSE <<>>

\* the awaits of the finally block, in order
finallyBlock(page, browser) ==
  (IF page # 0 THEN <<"closePage">> ELSE <<>>)
  \o (IF browser # 0 THEN <<"closeBrowser">> ELSE <<>>)

\* scrapeWithPuppeteer settles with its pending completion, and the handler
\* responds: 200 on a result, its catch block on an error
Settle(rec) ==
  IF rec.returning
  THEN Respond([rec EXCEPT !.returned = TRUE],
               JsonDocument(rec.html, rec.validation.url.href))
  ELSE Respond([rec EXCEPT !.thrown = rec.pending],
               scrapeDynamicCatch(rec.pending))

\* control leaves the try block and enters the finally block
Leave(rec) ==
  IF finallyBlock(rec.page, rec.browser) = <<>>
  THEN Settle(rec)
  ELSE [rec EXCEPT !.pc = "finally",
                   !.cleanup = finallyBlock(rec.page, rec.browser)]

\* a step of the try block throws
TryThrows(rec, error) ==
  Leave([rec EXCEPT !.primary = error, !.pending = error])

\* the try block reaches its return statement
TryReturns(rec) == Leave([rec EXCEPT !.returning = TRUE])

\* an await of the finally block rejects and the error is swallowed: the
\* pending completion stays
FinallyThrowsSwallowed(rec, error) == Settle(rec)

\* an await of the finally block rejects: its error replaces the pending
\* completion and the rest of the block is skipped
FinallyThrows(rec, error) ==
  Settle([rec EXCEPT !.returning = FALSE, !.pending = error])

\* an await of the finally block resolves
FinallyContinues(rec) ==
  IF Tail(rec.cleanup) = <<>>
  THEN Settle([rec EXCEPT !.cleanup = <<>>])
  ELSE [rec EXCEPT !.cleanup = Tail(@)]

\* handler of /scrape-dynamic up to its first await: the gate, then
\* scrapeWithPuppeteer calls puppeteer.launch
ScrapeDynamicWith(r, methods, queries) ==
  /\ CanAccept(r)
  /\ \E method \in methods, query \in queries :
       LET inv  == Invocation("scrape-dynamic", method, query)
           gate == HandlerGate(method, query)
       IN  req' = [req EXCEPT ![r] =
                     IF gate # NoResponse
                     THEN Respond(inv, gate)
                     ELSE [inv EXCEPT !.pc = "launch",
                                      !.validation = validateUrl(query.url),
                                      !.launches = @ + 1]]
  /\ served' = served + 1
  /\ UNCHANGED <<timers, openBrowsers, openPages, launched, pagesCreated,
                 concurrency, doc, ui>>

ScrapeDynamic(r) == ScrapeDynamicWith(r, Methods, Queries)

\* an awaited puppeteer call of the try block has resolved or rejected
Called(rec, what, ok) ==
  [rec EXCEPT !.calls = Append(@, [what |-> what, ok |-> ok])]

\* an await of the try block that only resolves or rejects
Step(r, at, next, error) ==
  /\ req[r].pc = at
  /\ \E ok \in BOOLEAN :
       req' = [req EXCEPT ![r] =
                 IF ok THEN [Called(@, at, ok) EXCEPT !.pc = next]
                 ELSE TryThrows(Called(@, at, ok), error)]
  /\ UNCHANGED <<timers, openBrowsers, openPages, launched, pagesCreated,
                 served, concurrency, doc, ui>>

\* browser = await puppeteer.launch(...)
Launch(r) ==
  /\ req[r].pc = "launch"
  /\ \E ok \in BOOLEAN :
       IF ok
       THEN /\ launched' = launched + 1
            /\ openBrowsers' = openBrowsers \cup {launched + 1}
            /\ req' = [req EXCEPT ![r] =
                         [Called(@, "launch", ok) EXCEPT
                            !.browser = launched + 1, !.pc = "newPage"]]
       ELSE /\ req' = [req EXCEPT ![r] =
                         TryThrows(Called(@, "launch", ok), LaunchError)]
            /\ UNCHANGED <<launched, openBrowsers>>
  /\ UNCHANGED <<timers, openPages, pagesCreated, served, concurrency, doc, ui>>

\* page = await browser.newPage()
NewPage(r) ==
  /\ req[r].pc = "newPage"
  /\ \E ok \in BOOLEAN :
       IF ok
       THEN /\ pagesCreated' = pagesCreated + 1
            /\ openPages' = openPages \cup {pagesCreated + 1}
            /\ req' = [req EXCEPT ![r] =
                         [Called(@, "newPage", ok) EXCEPT
                            !.page = pagesCreated + 1, !.pc = "setViewport"]]
       ELSE /\ req' = [req EXCEPT ![r] =
                         TryThrows(Called(@, "newPage", ok),
                                   ProtocolError("Target.createTarget"))]
            /\ UNCHANGED <<pagesCreated, openPages>>
  /\ UNCHANGED <<timers, openBrowsers, launched, served, concurrency, doc, ui>>

\* await page.setViewport(...)
SetViewport(r) ==
  Step(r, "setViewport", "setUserAgent",
       ProtocolError("Emulation.setDeviceMetricsOverride"))

\* the settle delay begun straight after the user agent is set, with no
\* navigation
SetUserAgentThenSettle(r) ==
  Step(r, "setUserAgent", "waitForTimeout",
       ProtocolError("Network.setUserAgentOverride"))

\* await page.setUserAgent(...)
SetUserAgent(r) ==
  Step(r, "setUserAgent", "goto",
       ProtocolError("Network.setUserAgentOverride"))

\* await page.goto(url, { waitUntil: 'networkidle2', timeout: TIMEOUT_MS })
Goto(r) ==
  /\ req[r].pc = "goto"
  /\ \E outcome \in {"ok", "timeout", "network"} :
       req' = [req EXCEPT ![r] =
                 LET rec == [Called(@, "goto", outcome = "ok") EXCEPT
                               !.navigations = @ + 1]
                 IN  CASE outcome = "ok" -> [rec EXCEPT !.pc = "waitForTimeout"]
                       [] outcome = "timeout" -> TryThrows(rec, NavigationTimeout)
                       [] outcome = "network" ->
                            TryThrows(rec, NavigationError(rec.validation.url.href))]
  /\ UNCHANGED <<timers, openBrowsers, openPages, launched, pagesCreated,
                 served, concurrency, doc, ui>>

\* await page.waitForTimeout(2000)
WaitForTimeout(r) == Step(r, "waitForTimeout", "content", NotAFunction)

\* page.content() without the size check
ContentUnchecked(r) ==
  /\ req[r].pc = "content"
  /\ \E ok \in BOOLEAN, html \in RenderedDocs :
       req' = [req EXCEPT ![r] =
                 IF ~ok
                 THEN TryThrows(Called(@, "content", ok),
                                ProtocolError("Runtime.callFunctionOn"))
                 ELSE [Called(@, "content", ok) EXCEPT
                         !.html = html, !.pc = "title"]]
  /\ UNCHANGED <<timers, openBrowsers, openPages, launched, pagesCreated,
                 served, concurrency, doc, ui>>

\* const html = await page.content(), and the size check
Content(r) ==
  /\ req[r].pc = "content"
  /\ \E ok \in BOOLEAN, html \in RenderedDocs :
       req' = [req EXCEPT ![r] =
                 IF ~ok
                 THEN TryThrows(Called(@, "content", ok),
                                ProtocolError("Runtime.callFunctionOn"))
                 ELSE IF html.units > MAX_RESPONSE_SIZE
                 THEN TryThrows([Called(@, "content", ok) EXCEPT
                                   !.html = html],
                                Error("Response too large ("
                                      \o numberToString(html.units)
                                      \o " bytes, max "
                                      \o numberToString(MAX_RESPONSE_SIZE)
                                      \o " bytes)"))
                 ELSE [Called(@, "content", ok) EXCEPT
                         !.html = html, !.pc = "title"]]
  /\ UNCHANGED <<timers, openBrowsers, openPages, launched, pagesCreated,
                 served, concurrency, doc, ui>>

\* const title = await page.title()
Title(r) == Step(r, "title", "screenshot", ProtocolError("Runtime.evaluate"))

\* const screenshot = await page.screenshot(...), and the return statement
Screenshot(r) ==
  /\ req[r].pc = "screenshot"
  /\ \E ok \in BOOLEAN :
       req' = [req EXCEPT ![r] =
                 IF ok THEN TryReturns(Called(@, "screenshot", ok))
                 ELSE TryThrows(Called(@, "screenshot", ok),
                                ProtocolError("Page.captureScreenshot"))]
  /\ UNCHANGED <<timers, openBrowsers, openPages, launched, pagesCreated,
                 served, concurrency, doc, ui>>

\* if (page) await page.close()
ClosePage(r) ==
  /\ req[r].pc = "finally"
  /\ Head(req[r].cleanup) = "closePage"
  /\ \E ok \in BOOLEAN :
       LET rec == [req[r] EXCEPT
                     !.closes = Append(@, [what |-> "page", ok |-> ok])]
       IN  IF ok
           THEN /\ openPages' = openPages \ {rec.page}
                /\ req' = [req EXCEPT ![r] = FinallyContinues(rec)]
           ELSE /\ openPages' = openPages
                /\ req' = [req EXCEPT ![r] =
                             FinallyThrows(rec, ProtocolError("Target.closeTarget"))]
  /\ UNCHANGED <<timers, openBrowsers, launched, pagesCreated, served,
                 concurrency, doc, ui>>

\* if (browser) await browser.close(): closing the browser closes its pages
CloseBrowser(r) ==
  /\ req[r].pc = "finally"
  /\ Head(req[r].cleanup) = "closeBrowser"
  /\ \E ok \in BOOLEAN :
       LET rec == [req[r] EXCEPT
                     !.closes = Append(@, [what |-> "browser", ok |-> ok])]
       IN  IF ok
           THEN /\ openBrowsers' = openBrowsers \ {rec.browser}
                /\ openPages' = openPages \ {rec.page}
                /\ req' = [req EXCEPT ![r] = FinallyContinues(rec)]
           ELSE /\ UNCHANGED <<openBrowsers, openPages>>
                /\ req' = [req EXCEPT ![r] =
                             FinallyThrows(rec, ProtocolError("Browser.close"))]
  /\ UNCHANGED <<timers, launched, pagesCreated, served, concurrency, doc, ui>>

\* the invocation has ended: its slot takes the next request
Release(r) ==
  /\ req[r].pc = "responded"
  /\ req' = [req EXCEPT ![r] = Idle]
  /\ UNCHANGED <<timers, openBrowsers, openPages, launched, pagesCreated,
                 served, concurrency, doc, ui>>

Next ==
  \E r \in Slots :
    \/ Scrape(r)
    \/ Tick(r)
    \/ TimerFire(r)
    \/ FetchReject(r)
    \/ FetchResolve(r)
    \/ ReadChunk(r)
    \/ ReadDone(r)
    \/ ReadError(r)
    \/ BodyStall(r)
    \/ ScrapeDynamic(r)
    \/ Launch(r)
    \/ NewPage(r)
    \/ SetViewport(r)
    \/ SetUserAgent(r)
    \/ Goto(r)
    \/ WaitForTimeout(r)
    \/ Content(r)
    \/ Title(r)
    \/ Screenshot(r)
    \/ ClosePage(r)
    \/ CloseBrowser(r)
    \/ Release(r)

Spec == Init /\ [][Next]_vars

(***************************************************************************)
(* Concurrent /scrape-dynamic requests: the server runs as many handler    *)
(* invocations at a time as it has slots, their awaits interleaving        *)
(* freely.  Every request is a GET of an admitted URL.                     *)
(***************************************************************************)
InitConcurrent ==
  /\ req = [r \in Slots |-> Idle]
  /\ timers = {}
  /\ openBrowsers = {}
  /\ openPages = {}
  /\ launched = 0
  /\ pagesCreated = 0
  /\ served = 0
  /\ concurrency = MaxSlots
  /\ doc = NoDocument
  /\ ui = NoApp

ScrapeDynamicGet(r) ==
  ScrapeDynamicWith(r, {"GET"},
                    {[present |-> TRUE, url |-> "http://example.com"]})

NextConcurrent ==
  \E r \in Slots :
    \/ ScrapeDynamicGet(r)
    \/ Launch(r)
    \/ NewPage(r)
    \/ SetViewport(r)
    \/ SetUserAgent(r)
    \/ Goto(r)
    \/ WaitForTimeout(r)
    \/ Content(r)
    \/ Title(r)
    \/ Screenshot(r)
    \/ ClosePage(r)
    \/ CloseBrowser(r)
    \/ Release(r)

SpecConcurrent == InitConcurrent /\ [][NextConcurrent]_vars

(***************************************************************************)
(* The admission guard on its own: validateUrl applied, twice, to one      *)
(* string drawn from the inputs below.                                     *)
(***************************************************************************)
GuardSchemes == {"http", "https", "HTTP", "ftp", "file", "ws", "gopher"}

GuardHosts ==
  {"example.com", "Sub.Example.org", "10.0.0.5", "172.20.1.1", "127.0.0.1",
   "0.0.0.0", "localhost", "LOCALHOST", "[::1]", "[fe80::1]"}

GuardTails == {"", "/index.html?q=1"}

\* strings the guard is applied to: the urls of the requests, every
\* scheme://host/tail combination of the sets above, strings with no
\* scheme, and scheme-like prefixes with no authority
GuardInputs ==
  RawUrls
  \cup {scheme \o "://" \o host \o tail :
          scheme \in GuardSchemes, host \in GuardHosts, tail \in GuardTails}
  \cup {"example.com", "//example.com/", "/index.html", "http//example.com",
        "://example.com", "1http://example.com", "http://exa mple.com/",
        "http://[::1", "localhost:3000", "mailto:root@localhost",
        "data:text/html,hello"}

InitGuard ==
  /\ \E urlString \in GuardInputs :
       req = [r \in Slots |->
                IF r = 1
                THEN [Idle EXCEPT !.query = [present |-> TRUE,
                                             url |-> urlString]]
                ELSE Idle]
  /\ timers = {}
  /\ openBrowsers = {}
  /\ openPages = {}
  /\ launched = 0
  /\ pagesCreated = 0
  /\ served = 0
  /\ concurrency = 1
  /\ doc = NoDocument
  /\ ui = NoApp

\* const validation = validateUrl(url)
Validate(r) ==
  /\ req[r].pc = "idle"
  /\ req[r].query.present
  /\ req' = [req EXCEPT ![r].pc = "validated",
                        ![r].validation = validateUrl(req[r].query.url)]
  /\ UNCHANGED <<timers, openBrowsers, openPages, launched, pagesCreated,
                 served, concurrency, doc, ui>>

\* validateUrl called once more on the same string
ValidateAgain(r) ==
  /\ req[r].pc = "validated"
  /\ req' = [req EXCEPT ![r].pc = "revalidated",
                        ![r].again = validateUrl(req[r].query.url)]
  /\ UNCHANGED <<timers, openBrowsers, openPages, launched, pagesCreated,
                 served, concurrency, doc, ui>>

NextGuard == \E r \in Slots : Validate(r) \/ ValidateAgain(r)

SpecGuard == InitGuard /\ [][NextGuard]_vars

(***************************************************************************)
(* The heuristic on its own, and the 200 response of /scrape built from    *)
(* the html fetchWithLimits returned.  Documents are written from recipes  *)
(* that say what they contain.                                             *)
(***************************************************************************)
\* a string of k characters without whitespace or markup
RECURSIVE Pad(_)
Pad(k) ==
  IF k = 0 THEN ""
  ELSE IF k = 1 THEN "x"
  ELSE Pad(k \div 2) \o Pad(k - (k \div 2))

Heads == {"", "<head><title>Page</title></head>"}

\* how the body is delimited; region: a <body ...> with a later </body>
BodyTags ==
  { [open |-> "<body>", close |-> "</body>", region |-> TRUE],
    [open |-> "<BODY class=\"home\">", close |-> "</BODY>", region |-> TRUE],
    [open |-> "<body>", close |-> "", region |-> FALSE],
    [open |-> "", close |-> "", region |-> FALSE] }

\* text of the body, and its length once whitespace runs are single spaces
Texts ==
  { [raw |-> "", visible |-> 0],
    [raw |-> Pad(99), visible |-> 99],
    [raw |-> Pad(100), visible |-> 100],
    [raw |-> Pad(49) \o " \n\t  " \o Pad(49), visible |-> 99],
    [raw |-> Pad(50) \o "\r\n\n" \o Pad(49), visible |-> 100] }

\* whitespace around the content of the body
Margins == {"", "\n  "}

\* markup of the body that the heuristic strips
Stripped ==
  { "",
    "<script>" \o Pad(120) \o "</script>",
    "<STYLE type=\"text/css\">" \o Pad(120) \o "</Style>",
    "<link rel=\"stylesheet\" href=\"/main.css\">" }

\* framework markers: markup before the body, markup in the body with the
\* length it adds to the cleaned body, and whether it holds a fingerprint
Marks ==
  { [before |-> "", inBody |-> "", visible |-> 0, fingerprint |-> FALSE],
    [before |-> "", inBody |-> "<div id=\"root\"></div>", visible |-> 21,
     fingerprint |-> TRUE],
    [before |-> "", inBody |-> "<div id=\"Root\"></div>", visible |-> 21,
     fingerprint |-> FALSE],
    [before |-> "",
     inBody |-> "<script>hydrate('data-reactroot')</script>", visible |-> 0,
     fingerprint |-> TRUE],
    [before |-> "<meta name=\"generator\" content=\"ng-version 17\">",
     inBody |-> "", visible |-> 0, fingerprint |-> TRUE] }

Recipes ==
  [head : Heads, body : BodyTags, margin : Margins, stripped : Stripped,
   text : Texts, mark : Marks]

\* the html a recipe describes
Render(recipe) ==
  "<html>" \o recipe.head \o recipe.mark.before \o recipe.body.open
  \o recipe.margin \o recipe.stripped \o recipe.text.raw
  \o recipe.mark.inBody \o recipe.margin \o recipe.body.close \o "</html>"

\* JSON null, and a JSON string
null == [null |-> TRUE, value |-> ""]
String(value) == [null |-> FALSE, value |-> value]

\* the 200 response with the warning sent whatever the heuristic said
ScrapeDocumentAlwaysWarns(html, href) ==
  LET isJsRendered == detectJsRenderedContent(html)
  IN  [status |-> 200, body |-> "document", html |-> html, url |-> href,
       size |-> Len(html), isJsRendered |-> isJsRendered,
       warning |-> String("This page appears to use JavaScript rendering. "
                          \o "Content may be incomplete.")]

\* isJsRendered = detectJsRenderedContent(html) and
\* res.status(200).json({ html, url, size, isJsRendered, warning })
ScrapeDocument(html, href) ==
  LET isJsRendered == detectJsRenderedContent(html)
  IN  [status |-> 200, body |-> "document", html |-> html, url |-> href,
       size |-> Len(html), isJsRendered |-> isJsRendered,
       warning |-> IF isJsRendered
                   THEN String("This page appears to use JavaScript "
                               \o "rendering. Content may be incomplete.")
                   ELSE null]

InitHeuristic ==
  /\ req = [r \in Slots |-> Idle]
  /\ timers = {}
  /\ openBrowsers = {}
  /\ openPages = {}
  /\ launched = 0
  /\ pagesCreated = 0
  /\ served = 0
  /\ concurrency = 1
  /\ \E recipe \in Recipes :
       doc = [pc |-> "html", recipe |-> recipe, html |-> Render(recipe),
              isJsRendered |-> FALSE, again |-> FALSE, res |-> NoResponse]
  /\ ui = NoApp

\* detectJsRenderedContent(html)
Detect ==
  /\ doc.pc = "html"
  /\ doc' = [doc EXCEPT !.pc = "detected",
                        !.isJsRendered = detectJsRenderedContent(doc.html)]
  /\ UNCHANGED <<req, timers, openBrowsers, openPages, launched,
                 pagesCreated, served, concurrency, ui>>

\* detectJsRenderedContent called once more on the same html
DetectAgain ==
  /\ doc.pc = "detected"
  /\ doc' = [doc EXCEPT !.pc = "detected twice",
                        !.again = detectJsRenderedContent(doc.html)]
  /\ UNCHANGED <<req, timers, openBrowsers, openPages, launched,
                 pagesCreated, served, concurrency, ui>>

\* the /scrape handler after fetchWithLimits returned html
ScrapeSucceeds ==
  /\ doc.pc = "html"
  /\ doc' = [doc EXCEPT !.pc = "responded",
                        !.res = ScrapeDocument(doc.html, "http://example.com/")]
  /\ UNCHANGED <<req, timers, openBrowsers, openPages, launched,
                 pagesCreated, served, concurrency, ui>>

NextHeuristic == Detect \/ DetectAgain \/ ScrapeSucceeds

SpecHeuristic == InitHeuristic /\ [][NextHeuristic]_vars

(***************************************************************************)
(* The page (App.jsx).  A state update made in an event handler is         *)
(* rendered before the next event is delivered, so an event is one step;   *)
(* every call of handleScrape that sends a request is kept, with the       *)
(* await it is at.                                                         *)
(***************************************************************************)
\* what the user types into the url input
UrlInputs ==
  { "", "   ", "example.com", "ftp://example.com/file",
    "http://example.com", "  https://example.com/docs  " }

\* validateUrl of App.jsx
validateUrlApp(urlString) ==
  LET urlObj == URLParse(trim(urlString))
  IN  urlObj.ok /\ urlObj.protocol \in {"http:", "https:"}

\* useState defaults
App == [url |-> "", loading |-> FALSE, error |-> "", html |-> FALSE,
        dynamicMode |-> FALSE, calls |-> <<>>]

\* a Scrape button that stays enabled while loading
ScrapeButtonDisabledWhenEmpty(state) == trim(state.url) = ""

\* disabled={loading || !url.trim()}
ScrapeButtonDisabled(state) == state.loading \/ trim(state.url) = ""

\* disabled={loading} of the url input
UrlInputDisabled(state) == state.loading

\* handleScrape up to its first await
handleScrape(state) ==
  LET trimmedUrl == trim(state.url)
  IN  IF trimmedUrl = ""
      THEN [state EXCEPT !.error = "Please enter a URL"]
      ELSE IF ~validateUrlApp(trimmedUrl)
      THEN [state EXCEPT !.error = "Please enter a valid HTTP or HTTPS URL"]
      ELSE [state EXCEPT
              !.error = "", !.loading = TRUE, !.html = FALSE,
              !.calls = Append(@, [pc |-> "fetch", input |-> state.url,
                                   url |-> trimmedUrl, ok |-> FALSE,
                                   apiEndpoint |->
                                     IF state.dynamicMode
                                     THEN "/api/scrape-dynamic"
                                     ELSE "/api/scrape"])]

\* catch (err) { setError(...) } finally { setLoading(false) }
handleScrapeCatch(state, i, message) ==
  [state EXCEPT !.error = message, !.loading = FALSE, !.calls[i].pc = "done"]

InitUI ==
  /\ req = [r \in Slots |-> Idle]
  /\ timers = {}
  /\ openBrowsers = {}
  /\ openPages = {}
  /\ launched = 0
  /\ pagesCreated = 0
  /\ served = 0
  /\ concurrency = 1
  /\ doc = NoDocument
  /\ ui = App

\* onChange of the url input
ChangeUrl ==
  /\ ~UrlInputDisabled(ui)
  /\ \E value \in UrlInputs : ui' = [ui EXCEPT !.url = value]
  /\ UNCHANGED <<req, timers, openBrowsers, openPages, launched,
                 pagesCreated, served, concurrency, doc>>

\* onChange of the Dynamic Mode checkbox
ChangeDynamicMode ==
  /\ ui' = [ui EXCEPT !.dynamicMode = ~@]
  /\ UNCHANGED <<req, timers, openBrowsers, openPages, launched,
                 pagesCreated, served, concurrency, doc>>

\* onClick of the Scrape button
ClickScrape ==
  /\ ~ScrapeButtonDisabled(ui)
  /\ Len(ui.calls) < MaxAttempts
  /\ ui' = handleScrape(ui)
  /\ UNCHANGED <<req, timers, openBrowsers, openPages, launched,
                 pagesCreated, served, concurrency, doc>>

\* handleKeyPress on Enter in the url input
KeyPressEnter ==
  /\ ~UrlInputDisabled(ui)
  /\ Len(ui.calls) < MaxAttempts
  /\ ui' = IF ~ui.loading THEN handleScrape(ui) ELSE ui
  /\ UNCHANGED <<req, timers, openBrowsers, openPages, launched,
                 pagesCreated, served, concurrency, doc>>

\* await fetch(...) settles: a response of either kind, or a network error
FetchSettles ==
  /\ \E i \in DOMAIN ui.calls :
       /\ ui.calls[i].pc = "fetch"
       /\ \/ \E ok \in BOOLEAN :
               ui' = [ui EXCEPT !.calls[i].pc = "json", !.calls[i].ok = ok]
          \/ ui' = handleScrapeCatch(ui, i, "Failed to fetch")
  /\ UNCHANGED <<req, timers, openBrowsers, openPages, launched,
                 pagesCreated, served, concurrency, doc>>

\* await response.json() settles, and the rest of handleScrape runs
JsonSettles ==
  /\ \E i \in DOMAIN ui.calls :
       /\ ui.calls[i].pc = "json"
       /\ \/ /\ ui.calls[i].ok
             /\ ui' = [ui EXCEPT !.html = TRUE, !.loading = FALSE,
                                 !.calls[i].pc = "done"]
          \/ /\ ~ui.calls[i].ok
             /\ ui' = handleScrapeCatch(ui, i, "Failed to scrape URL")
          \/ ui' = handleScrapeCatch(ui, i, "Unexpected token < in JSON")
  /\ UNCHANGED <<req, timers, openBrowsers, openPages, launched,
                 pagesCreated, served, concurrency, doc>>

\* handleClear; the button is rendered with the result
ClickClear ==
  /\ ui.html
  /\ ui' = [ui EXCEPT !.html = FALSE, !.error = ""]
  /\ UNCHANGED <<req, timers, openBrowsers, openPages, launched,
                 pagesCreated, served, concurrency, doc>>

NextUI ==
  \/ ChangeUrl
  \/ ChangeDynamicMode
  \/ ClickScrape
  \/ KeyPressEnter
  \/ FetchSettles
  \/ JsonSettles
  \/ ClickClear

SpecUI == InitUI /\ [][NextUI]_vars

(***************************************************************************)
(* Properties.                                                             *)
(***************************************************************************)
Responded(r) == req[r].pc = "responded"
Static(r) == req[r].endpoint = "scrape"
Dynamic(r) == req[r].endpoint = "scrape-dynamic"

\* the what-fields of the closes a request attempted, in order
Attempted(r) == [i \in DOMAIN req[r].closes |-> req[r].closes[i].what]
ClosesSucceeded(r) == \A i \in DOMAIN req[r].closes : req[r].closes[i].ok

\* C1: on every exit of scrapeWithPuppeteer with a browser launched,
\* browser.close() has been attempted, also when page.close() failed
C1_BrowserCloseAttempted ==
  \A r \in Slots :
    (Responded(r) /\ Dynamic(r) /\ req[r].browser # 0)
      => \E i \in DOMAIN req[r].closes : req[r].closes[i].what = "browser"

\* C2: when no close operation fails, a dynamic render that has settled has
\* closed the page and the browser it opened, the page first, and has closed
\* nothing when the launch failed
C2_TeardownOnEveryExit ==
  \A r \in Slots :
    (Responded(r) /\ Dynamic(r) /\ req[r].launches > 0 /\ ClosesSucceeded(r))
      => /\ req[r].browser # 0 => req[r].browser \notin openBrowsers
         /\ req[r].page # 0 => req[r].page \notin openPages
         /\ Attempted(r) = (IF req[r].page # 0 THEN <<"page">> ELSE <<>>)
                           \o (IF req[r].browser # 0 THEN <<"browser">>
                               ELSE <<>>)

\* a navigation timeout after which page and browser were both closed
C2_Witness ==
  \E r \in Slots :
    /\ Responded(r) /\ Dynamic(r)
    /\ req[r].primary = NavigationTimeout
    /\ Attempted(r) = <<"page", "browser">>
    /\ ClosesSucceeded(r)
    /\ req[r].page \notin openPages /\ req[r].browser \notin openBrowsers

\* C3: a dynamic render that failed with a primary error reports that error,
\* and the status derived from it, also when closing page or browser fails
C3_PrimaryErrorReported ==
  \A r \in Slots :
    (Responded(r) /\ Dynamic(r) /\ req[r].primary # NoError)
      => /\ req[r].thrown = req[r].primary
         /\ req[r].res = scrapeDynamicCatch(req[r].primary)

\* what validateUrl returns for each url of the model
GuardResult == [u \in RawUrls |-> validateUrl(u)]

\* C4: a fetch, launch or navigation starts only for a url the guard found
\* valid; a GET the guard rejects is answered 400 with the guard's reason
\* and without any retrieval
C4_NoRetrievalWithoutAdmission ==
  \A r \in Slots :
    LET v == GuardResult[req[r].query.url]
    IN  /\ (req[r].fetches > 0 \/ req[r].launches > 0 \/ req[r].navigations > 0)
             => (req[r].query.present /\ v.valid /\ req[r].validation = v)
        /\ (/\ Responded(r) /\ req[r].method = "GET"
            /\ req[r].query.present /\ req[r].query.url # "" /\ ~v.valid)
             => /\ req[r].res = JsonError(400, v.error, "")
                /\ req[r].fetches = 0 /\ req[r].launches = 0
                /\ req[r].navigations = 0
        /\ (/\ Responded(r) /\ req[r].method = "GET"
            /\ req[r].query = [present |-> TRUE, url |-> "http://192.168.1.1"])
             => /\ req[r].res.status = 400
                /\ req[r].res.error = "Private IP addresses are not allowed"

\* /scrape-dynamic has answered http://192.168.1.1, as the second request
\* served, with 400 and without launching a browser
C4_Witness ==
  \E r \in Slots :
    /\ Responded(r) /\ Dynamic(r) /\ req[r].method = "GET"
    /\ req[r].query.url = "http://192.168.1.1"
    /\ req[r].res.status = 400
    /\ req[r].launches = 0
    /\ served = 2

\* the host of a raw url, without the brackets of an IPv6 literal
HostOf(raw) ==
  LET h == URLParse(raw).hostname
  IN  IF StartsWith(h, "[") THEN SubSeq(h, 2, Len(h) - 1) ELSE h

\* the dotted decimal number at position n (1..4) of an IPv4 address
RECURSIVE Octet(_, _)
Octet(h, n) ==
  LET dot == IndexOf(h, ".")
      first == IF dot = 0 THEN h ELSE SubSeq(h, 1, dot - 1)
  IN  IF n = 1 THEN parseInt(first)
      ELSE IF dot = 0 THEN -1
      ELSE Octet(SubSeq(h, dot + 1, Len(h)), n - 1)

\* the ranges and names the guard is to refuse
DenyListed(raw) ==
  LET h == toLowerCase(HostOf(raw))
      a == Octet(h, 1)
      b == Octet(h, 2)
  IN  /\ URLParse(raw).ok
      /\ \/ Octet(h, 4) >= 0 /\ \/ a = 10
                                \/ a = 172 /\ b >= 16 /\ b <= 31
                                \/ a = 192 /\ b = 168
                                \/ a = 127
                                \/ a = 169 /\ b = 254
         \/ h = "localhost"
         \/ h = "::1"
         \/ StartsWith(h, "fe80:")
         \/ StartsWith(h, "fc") /\ IndexOf(h, ":") = 5
         \/ StartsWith(h, "fd") /\ IndexOf(h, ":") = 5

DenyListedUrls == {u \in RawUrls : DenyListed(u)}

\* C5: the guard never returns valid for a url whose host is in a
\* deny-listed range or is a deny-listed name, whatever the scheme
C5_DenyListedHostsRejected ==
  \A r \in Slots :
    (req[r].pc # "idle" /\ req[r].query.present /\ req[r].method = "GET"
     /\ req[r].query.url \in DenyListedUrls)
      => /\ ~req[r].validation.valid
         /\ ~GuardResult[req[r].query.url].valid

\* C6: a static fetch the timer aborted is answered 504
C6_FetchTimeoutIs504 ==
  \A r \in Slots :
    (Responded(r) /\ Static(r) /\ req[r].aborted) => req[r].res.status = 504

\* C7: the body read loop is under the request timeout: once TIMEOUT_MS have
\* elapsed on a read that stalled, the timer is due or has aborted the request
C7_StalledBodyTimesOut ==
  \A r \in Slots :
    (req[r].pc = "read" /\ req[r].stalled /\ Elapsed(r) >= TIMEOUT_MS)
      => (req[r].id \in timers \/ req[r].aborted)

\* C8: with no response within TIMEOUT_MS the timer fires (never earlier),
\* and a fetch the timer aborted makes fetchWithLimits throw
\* 'Request timed out', not the abort error, and return nothing
C8_TimeoutThrowsRequestTimedOut ==
  \A r \in Slots :
    /\ (req[r].pc = "fetch" /\ Elapsed(r) >= TIMEOUT_MS)
         => (req[r].id \in timers \/ req[r].aborted)
    /\ req[r].aborted => Elapsed(r) >= TIMEOUT_MS
    /\ (Responded(r) /\ Static(r) /\ req[r].aborted)
         => /\ ~req[r].returned
            /\ req[r].thrown = Error("Request timed out")

\* a fetch that timed out and was answered
C8_Witness ==
  \E r \in Slots :
    /\ Responded(r) /\ Static(r) /\ req[r].aborted
    /\ req[r].thrown.message = "Request timed out"
    /\ ~req[r].reader

\* C9: a pending timer belongs to a fetchWithLimits still in progress: once
\* the call has settled, in whatever way, its timer is cleared, over any
\* number of calls
C9_NoTimerLeftPending ==
  timers \subseteq {req[r].id : r \in {q \in Slots : req[q].pc \in {"fetch", "read"}}}

\* a second call has settled after a network error, with no timer pending
C9_Witness ==
  \E r \in Slots :
    /\ Responded(r) /\ Static(r)
    /\ req[r].id >= 2
    /\ req[r].thrown = NetworkError
    /\ req[r].ticks > 0
    /\ timers = {}

RECURSIVE SumLengths(_)
SumLengths(values) ==
  IF values = <<>> THEN 0
  ELSE values[1].length + SumLengths(Tail(values))

Front(values) == SubSeq(values, 1, Len(values) - 1)

\* C11: in the static read loop the running total is the sum of the lengths
\* of all chunks read so far; while that sum is within the ceiling every
\* chunk read is retained; the first chunk that takes the sum above the
\* ceiling is not retained, ends the retrieval (nothing was above the ceiling
\* before it, nothing is read after it) and the request is answered 413
\* 'Response too large (max N bytes)', whatever Content-Length was declared;
\* and a body that ended with the total within the ceiling is answered 200
C11_CeilingEnforcedPerChunk ==
  \A r \in Slots :
    Static(r) =>
      LET received == req[r].received
          total    == SumLengths(received)
      IN  /\ req[r].totalLength = total
          /\ total <= MAX_RESPONSE_SIZE => req[r].chunks = received
          /\ total > MAX_RESPONSE_SIZE =>
                /\ req[r].chunks = Front(received)
                /\ SumLengths(Front(received)) <= MAX_RESPONSE_SIZE
                /\ Responded(r)
                /\ ~req[r].returned
                /\ req[r].res.status = 413
                /\ req[r].res.error = "Response too large (max "
                     \o numberToString(MAX_RESPONSE_SIZE) \o " bytes)"
          /\ req[r].returned =>
                /\ total <= MAX_RESPONSE_SIZE
                /\ req[r].res.status = 200
                /\ req[r].res.size = DecodedUnits(received)

\* a body announced with no Content-Length, or with one below what was sent,
\* went over the ceiling at its third chunk and the request was answered 413
\* with two chunks retained
C11_Witness ==
  \E r \in Slots :
    /\ Static(r) /\ Responded(r)
    /\ req[r].res.status = 413
    /\ Len(req[r].received) = 3
    /\ Len(req[r].chunks) = 2
    /\ req[r].totalLength = MAX_RESPONSE_SIZE + 1
    /\ \/ ~req[r].response.contentLength.present
       \/ /\ req[r].response.contentLength.present
          /\ parseInt(req[r].response.contentLength.value)
               < req[r].totalLength
\* the upstream answered with a success status and an HTML content type
OkHtml(response) ==
  /\ response.ok
  /\ response.contentType.present
  /\ \/ Includes(response.contentType.value, "text/html")
     \/ Includes(response.contentType.value, "application/xhtml")

\* the Content-Length the upstream declared is above the ceiling
DeclaredTooLarge(response) ==
  /\ response.contentLength.present
  /\ parseInt(response.contentLength.value) > MAX_RESPONSE_SIZE

HeaderVerdict == [response \in UpstreamResponses |->
                    [okHtml |-> OkHtml(response),
                     tooLarge |-> DeclaredTooLarge(response)]]

\* C12: once an OK HTML response declaring a Content-Length above the
\* ceiling has arrived on /scrape, the request has been answered 413 with
\* the 'Response too large' error naming the declared length, the body
\* reader was never obtained and no chunk was read
C12_DeclaredLengthShortCircuits ==
  \A r \in Slots :
    (/\ Static(r)
     /\ req[r].response # NoUpstream
     /\ HeaderVerdict[req[r].response].okHtml
     /\ HeaderVerdict[req[r].response].tooLarge) =>
      /\ Responded(r)
      /\ ~req[r].reader
      /\ req[r].received = <<>>
      /\ req[r].totalLength = 0
      /\ req[r].thrown.message
           = "Response too large (" \o req[r].response.contentLength.value
             \o " bytes, max " \o numberToString(MAX_RESPONSE_SIZE)
             \o " bytes)"
      /\ req[r].res.status = 413
      /\ req[r].res.error = req[r].thrown.message

\* an OK text/html response declaring 1048577 bytes was answered 413
C12_Witness ==
  \E r \in Slots :
    /\ Static(r) /\ Responded(r)
    /\ req[r].response.ok
    /\ req[r].response.contentType = Header("text/html; charset=utf-8")
    /\ req[r].response.contentLength
         = Header(numberToString(MAX_RESPONSE_SIZE + 1))
    /\ req[r].res.status = 413
C14_NonHtmlRejectedFirst ==
  \A r \in Slots :
    (/\ Static(r)
     /\ req[r].response # NoUpstream
     /\ req[r].response.ok
     /\ ~HeaderVerdict[req[r].response].okHtml) =>
      /\ Responded(r)
      /\ ~req[r].reader
      /\ req[r].received = <<>>
      /\ req[r].html = NoDoc
      /\ req[r].thrown = Error("URL does not return HTML content")
      /\ req[r].res.status = 400
      /\ req[r].res.error = "URL does not return HTML content"

\* an OK response with no Content-Type header and a declared length above
\* the ceiling was answered 400
C14_Witness ==
  \E r \in Slots :
    /\ Static(r) /\ Responded(r)
    /\ req[r].response.ok
    /\ ~req[r].response.contentType.present
    /\ req[r].response.contentLength
         = Header(numberToString(MAX_RESPONSE_SIZE + 1))
    /\ req[r].res.status = 400
\* the puppeteer calls of the try block that request r has had settled
CallsMade(r) == {req[r].calls[i].what : i \in DOMAIN req[r].calls}

\* C15: a /scrape-dynamic request whose render failed is answered by the
\* first matching rule of: message includes 'timeout' -> 504 'Request timed
\* out'; includes 'too large' -> 413; includes 'net::ERR_' -> 502 'Failed to
\* load page'; otherwise 500 with the message as details.  In particular a
\* navigation timeout is answered 504, a navigation network error 502, a
\* launch failure 500, and markup longer than the ceiling 413 with neither
\* title nor screenshot taken
C15_DynamicFailureMapping ==
  \A r \in Slots :
    (Dynamic(r) /\ Responded(r) /\ req[r].calls # <<>> /\ ~req[r].returned) =>
      LET message == req[r].thrown.message
          res     == req[r].res
      IN  /\ res.body = "error"
          /\ IF Includes(message, "timeout")
             THEN res.status = 504 /\ res.error = "Request timed out"
             ELSE IF Includes(message, "too large")
             THEN res.status = 413 /\ res.error = message
             ELSE IF Includes(message, "net::ERR_")
             THEN res.status = 502 /\ res.error = "Failed to load page"
             ELSE /\ res.status = 500
                  /\ res.error = "Failed to scrape URL with dynamic rendering"
                  /\ res.details = message
          /\ req[r].primary = NavigationTimeout => res.status = 504
          /\ StartsWith(req[r].primary.message, "net::ERR_")
                => res.status = 502
          /\ req[r].primary = LaunchError
                => res.status = 500 /\ res.details = LaunchError.message
          /\ req[r].html.units > MAX_RESPONSE_SIZE
                => /\ res.status = 413
                   /\ CallsMade(r) \cap {"title", "screenshot"} = {}

\* when every close attempted in the finally block succeeded, the error of
\* the try block is the one mapped, and the particular cases hold
DynamicMappingWhenTeardownSucceeds ==
  \A r \in Slots :
    (Dynamic(r) /\ Responded(r) /\ req[r].calls # <<>> /\ ~req[r].returned
     /\ ClosesSucceeded(r)) =>
      /\ req[r].thrown = req[r].primary
      /\ req[r].primary = NavigationTimeout => req[r].res.status = 504
      /\ StartsWith(req[r].primary.message, "net::ERR_")
            => req[r].res.status = 502
      /\ req[r].primary = LaunchError => req[r].res.status = 500
      /\ req[r].html.units > MAX_RESPONSE_SIZE
            => /\ req[r].res.status = 413
               /\ CallsMade(r) \cap {"title", "screenshot"} = {}
\* the awaited calls of the try block of scrapeWithPuppeteer, in the order of
\* its text, and the phase each belongs to
TryCalls ==
  <<"launch", "newPage", "setViewport", "setUserAgent", "goto",
    "waitForTimeout", "content", "title", "screenshot">>

PhaseOf(what) ==
  CASE what \in {"launch", "newPage"} -> "Launching"
    [] what \in {"setViewport", "setUserAgent", "goto"} -> "NavigatingPage"
    [] what = "waitForTimeout" -> "Settling"
    [] what \in {"content", "title", "screenshot"} -> "Extracting"

InTry(r) == \E i \in DOMAIN TryCalls : req[r].pc = TryCalls[i]

\* call number i of request r resolved
Resolved(r, i) == i \in DOMAIN req[r].calls /\ req[r].calls[i].ok

\* C16: a dynamic render makes the calls of its try block in the order
\* launch, newPage, setViewport, setUserAgent, goto (Launching, then
\* NavigatingPage), waitForTimeout (Settling), content, title, screenshot
\* (Extracting), each begun only after all earlier ones resolved: goto is
\* awaited only after launch and newPage resolved, content only after goto
\* and the settle delay resolved.  After the first failure no later call of
\* the try block is made and only the finally block (TornDown) runs; closes
\* happen only in the finally block; and a result is returned only after
\* content, title and screenshot resolved and the teardown ran
C16_PhasesInOrder ==
  \A r \in Slots :
    (Dynamic(r) /\ req[r].launches > 0) =>
      LET calls == req[r].calls
          n     == Len(calls)
      IN  /\ n <= Len(TryCalls)
          /\ \A i \in DOMAIN calls :
                /\ calls[i].what = TryCalls[i]
                /\ i < n => calls[i].ok
          /\ InTry(r) =>
                /\ n < Len(TryCalls)
                /\ req[r].pc = TryCalls[n + 1]
                /\ \A i \in DOMAIN calls : calls[i].ok
                /\ req[r].primary = NoError
                /\ req[r].closes = <<>>
                /\ ~req[r].returning
          /\ req[r].pc = "goto" => Resolved(r, 1) /\ Resolved(r, 2)
          /\ req[r].pc = "content" => Resolved(r, 5) /\ Resolved(r, 6)
          /\ ~InTry(r) => req[r].pc \in {"finally", "responded"}
          /\ req[r].primary # NoError =>
                /\ ~InTry(r)
                /\ n >= 1
                /\ \/ ~calls[n].ok
                   \/ /\ calls[n].what = "content"
                      /\ req[r].html.units > MAX_RESPONSE_SIZE
                /\ ~req[r].returning /\ ~req[r].returned
                /\ (Responded(r) /\ req[r].browser # 0)
                      => req[r].closes # <<>>
          /\ (req[r].returning \/ req[r].returned) =>
                /\ n = Len(TryCalls)
                /\ \A i \in DOMAIN calls : calls[i].ok
                /\ PhaseOf(calls[n].what) = "Extracting"
                /\ req[r].primary = NoError
          /\ req[r].returned =>
                /\ Attempted(r) = <<"page", "browser">>
                /\ ClosesSucceeded(r)
                /\ req[r].res.status = 200

\* the settle delay failed after a completed navigation: no markup was
\* extracted, page and browser were closed and the request answered
C16_Witness ==
  \E r \in Slots :
    /\ Dynamic(r) /\ Responded(r)
    /\ Len(req[r].calls) = 6
    /\ Resolved(r, 5)
    /\ req[r].calls[6] = [what |-> "waitForTimeout", ok |-> FALSE]
    /\ req[r].html = NoDoc
    /\ Attempted(r) = <<"page", "browser">>
\* the dynamic requests whose scrapeWithPuppeteer call has not settled
Rendering == {r \in Slots : Dynamic(r) /\ req[r].pc \notin {"idle", "responded"}}

\* the renders of two requests never hold the same browser or page, every
\* browser and page a request holds was created once, by a launch or newPage
\* of its own, and a close by a request only removes what it holds
SessionsIsolated ==
  \A r \in Slots :
    Dynamic(r) =>
      /\ req[r].launches <= 1
      /\ req[r].browser # 0 =>
            /\ Resolved(r, 1)
            /\ req[r].browser \in 1..launched
      /\ req[r].page # 0 =>
            /\ Resolved(r, 2)
            /\ req[r].browser # 0
            /\ req[r].page \in 1..pagesCreated
      /\ \A q \in Slots \ {r} :
            Dynamic(q) =>
              /\ req[r].browser # 0 => req[q].browser # req[r].browser
              /\ req[r].page # 0 => req[q].page # req[r].page
      /\ (req[r].pc \in {"setViewport", "setUserAgent", "goto",
                         "waitForTimeout", "content", "title", "screenshot"})
            => /\ req[r].browser \in openBrowsers
               /\ req[r].page \in openPages

Count(r, what) ==
  Cardinality({i \in DOMAIN req[r].calls : req[r].calls[i].what = what})

\* C18: one request calls fetch at most once on /scrape, and launches and
\* navigates at most once each on /scrape-dynamic; once a step has failed
\* nothing is attempted again (the failing call is the last one made, and on
\* /scrape the request is answered at once), and the request ends answered
\* with an error, never with a document
C18_NoRetry ==
  \A r \in Slots :
    /\ Static(r) =>
          /\ req[r].fetches <= 1
          /\ req[r].launches = 0 /\ req[r].navigations = 0
          /\ req[r].thrown # NoError =>
                /\ req[r].fetches = 1
                /\ Responded(r)
                /\ ~req[r].returned
                /\ req[r].res.body = "error"
                /\ req[r].res.status \in {400, 413, 500, 502, 504}
    /\ Dynamic(r) =>
          /\ req[r].fetches = 0
          /\ req[r].launches <= 1 /\ req[r].navigations <= 1
          /\ Count(r, "launch") <= req[r].launches
          /\ Count(r, "goto") = req[r].navigations
          /\ req[r].primary # NoError =>
                /\ req[r].launches = 1
                /\ req[r].pc \in {"finally", "responded"}
                /\ \A i \in DOMAIN req[r].calls :
                      ~req[r].calls[i].ok => i = Len(req[r].calls)
                /\ ~req[r].returning /\ ~req[r].returned
                /\ Responded(r) =>
                      /\ req[r].thrown # NoError
                      /\ req[r].res.body = "error"
                      /\ req[r].res.status \in {413, 500, 502, 504}

\* a navigation failed with a network error after one launch and one
\* navigation, and the request was answered 502
C18_Witness ==
  \E r \in Slots :
    /\ Dynamic(r) /\ Responded(r)
    /\ StartsWith(req[r].primary.message, "net::ERR_")
    /\ req[r].launches = 1 /\ req[r].navigations = 1
    /\ Count(r, "goto") = 1
    /\ req[r].res.status = 502
\* the guard has been applied to the string of slot r
Validated(r) == req[r].pc \in {"validated", "revalidated"}

\* C19: applied to a string that parses as a URL whose scheme is neither
\* http nor https, validateUrl rejects with 'Only HTTP and HTTPS URLs are
\* allowed', whatever the host (deny-listed or not); applied to a string
\* that does not parse as an absolute URL it rejects with 'Invalid URL
\* format'
C19_SchemeAndFormatRejections ==
  \A r \in Slots :
    Validated(r) =>
      LET url == URLParse(req[r].query.url)
      IN  /\ (url.ok /\ url.protocol \notin {"http:", "https:"}) =>
                req[r].validation
                  = [valid |-> FALSE,
                     error |-> "Only HTTP and HTTPS URLs are allowed",
                     url |-> URLFailure]
          /\ ~url.ok =>
                req[r].validation
                  = [valid |-> FALSE, error |-> "Invalid URL format",
                     url |-> URLFailure]

\* the guard rejected ftp://10.0.0.5/, whose host is deny-listed, for its
\* scheme
C19_Witness ==
  \E r \in Slots :
    /\ Validated(r)
    /\ req[r].query.url = "ftp://10.0.0.5/"
    /\ req[r].validation.error = "Only HTTP and HTTPS URLs are allowed"
NothingRetrieved(r) ==
  /\ req[r].fetches = 0 /\ req[r].launches = 0 /\ req[r].navigations = 0
  /\ req[r].response = NoUpstream
  /\ req[r].calls = <<>> /\ req[r].closes = <<>>
  /\ req[r].browser = 0 /\ req[r].page = 0
  /\ req[r].thrown = NoError

\* C21: on both endpoints a request is answered, in this order of tests:
\* OPTIONS with 200 and an empty body, whatever its url; any other method
\* than GET with 405 'Method not allowed', whatever its url; a GET whose url
\* is missing or empty with 400 'URL parameter is required'; in each case at
\* once, with no guard verdict in the response and no retriever called
C21_GateOrder ==
  \A r \in Slots :
    (req[r].pc # "idle" /\ (Static(r) \/ Dynamic(r))) =>
      /\ req[r].method = "OPTIONS" =>
            /\ Responded(r) /\ NothingRetrieved(r)
            /\ req[r].res = [NoResponse EXCEPT !.status = 200,
                                               !.body = "empty"]
      /\ req[r].method \notin {"OPTIONS", "GET"} =>
            /\ Responded(r) /\ NothingRetrieved(r)
            /\ req[r].res.status = 405
            /\ req[r].res.body = "error"
            /\ req[r].res.error = "Method not allowed"
      /\ (/\ req[r].method = "GET"
          /\ (~req[r].query.present \/ req[r].query.url = "")) =>
            /\ Responded(r) /\ NothingRetrieved(r)
            /\ req[r].res.status = 400
            /\ req[r].res.body = "error"
            /\ req[r].res.error = "URL parameter is required"

\* a POST to /scrape-dynamic carrying a url the guard would reject was
\* answered 405
C21_Witness ==
  \E r \in Slots :
    /\ Dynamic(r) /\ Responded(r)
    /\ req[r].method = "POST"
    /\ req[r].query = [present |-> TRUE, url |-> "ftp://x"]
    /\ req[r].res.status = 405
\* what the recipe of the document says the heuristic must answer: a body
\* region whose cleaned content is shorter than 100 characters, or a
\* fingerprint anywhere in the html
Expected(recipe) ==
  \/ recipe.body.region /\ recipe.text.visible + recipe.mark.visible < 100
  \/ recipe.mark.fingerprint

\* C23: detectJsRenderedContent(html) is true exactly when html has a
\* <body ...>...</body> region whose content, with script and style
\* elements and link tags removed, whitespace runs collapsed and the ends
\* trimmed, is shorter than 100 characters, or html contains a fingerprint;
\* without a body region the fingerprints alone decide; and a second call
\* on the same html gives the same answer
C23_HeuristicExact ==
  /\ doc.pc \in {"detected", "detected twice"} =>
        /\ doc.isJsRendered = Expected(doc.recipe)
        /\ ~doc.recipe.body.region =>
              doc.isJsRendered = doc.recipe.mark.fingerprint
  /\ doc.pc = "detected twice" => doc.again = doc.isJsRendered

\* a document with 100 characters of body text and a fingerprint is true,
\* as the cleaned body alone would not make it
C23_Witness ==
  /\ doc.pc = "detected"
  /\ doc.recipe.body.region
  /\ doc.recipe.text.visible = 100
  /\ doc.recipe.mark.fingerprint
  /\ doc.isJsRendered
\* C22: in every 200 response of /scrape the warning is null exactly when
\* isJsRendered is false, a warning that is not null is the fixed advisory
\* message, and isJsRendered is what the heuristic answers on the html of
\* that same response
C22_WarningIffJsRendered ==
  doc.pc = "responded" /\ doc.res.status = 200 =>
    /\ doc.res.warning.null = ~doc.res.isJsRendered
    /\ ~doc.res.warning.null =>
          doc.res.warning.value = "This page appears to use JavaScript "
                                  \o "rendering. Content may be incomplete."
    /\ doc.res.html = doc.html
    /\ doc.res.isJsRendered = detectJsRenderedContent(doc.res.html)
    /\ doc.res.isJsRendered = Expected(doc.recipe)

\* a 200 response for a document with an almost empty body and no
\* fingerprint carries the advisory message
C22_Witness ==
  /\ doc.pc = "responded"
  /\ doc.res.status = 200
  /\ doc.recipe.body.region
  /\ ~doc.recipe.mark.fingerprint
  /\ doc.res.isJsRendered
  /\ ~doc.res.warning.null
\* C24: on a successful static scrape the size reported to the caller is
\* the number of bytes received, the running total over the chunks
C24_SizeIsByteCount ==
  \A r \in Slots :
    /\ Static(r)
    /\ Responded(r)
    /\ req[r].res.status = 200
    /\ req[r].res.body = "document"
    => req[r].res.size = req[r].totalLength
\* the request of slot r is between its arrival and its response
Unanswered(r) == req[r].pc \notin {"idle", "responded"}

\* the operation the request of slot r awaits settles
FetchSettled(r) == FetchReject(r) \/ FetchResolve(r) \/ TimerFire(r)
ReadSettled(r) == ReadDone(r) \/ ReadError(r) \/ ReadChunk(r)
CallSettled(r) ==
  \/ Launch(r) \/ NewPage(r) \/ SetViewport(r) \/ SetUserAgent(r)
  \/ Goto(r) \/ WaitForTimeout(r) \/ Content(r) \/ Title(r)
  \/ Screenshot(r) \/ ClosePage(r) \/ CloseBrowser(r)

\* C25: each handler sends exactly one response per request on every path:
\* never two, a request has been answered exactly when its handler has
\* ended, and a request not yet answered is awaiting a step of its
\* retrieval which, unless the upstream body stalls for ever, can settle
C25_ExactlyOneResponse ==
  \A r \in Slots :
    /\ req[r].sent <= 1
    /\ Responded(r) <=> req[r].sent = 1
    /\ Responded(r) <=> req[r].res # NoResponse
    /\ Unanswered(r) =>
          /\ Static(r) => req[r].pc \in {"fetch", "read"}
          /\ Dynamic(r) => InTry(r) \/ req[r].pc = "finally"
          /\ req[r].pc = "fetch" => ENABLED FetchSettled(r)
          /\ (req[r].pc = "read" /\ ~req[r].stalled) => ENABLED ReadSettled(r)
          /\ Dynamic(r) => ENABLED CallSettled(r)

\* a render whose page.close() failed after a successful extraction was
\* answered once
C25_Witness ==
  \E r \in Slots :
    /\ Dynamic(r)
    /\ Responded(r)
    /\ req[r].sent = 1
    /\ req[r].html # NoDoc
    /\ ~ClosesSucceeded(r)
    /\ req[r].res.status = 500
\* every call of the try block of request r resolved
Extracted(r) == \A i \in DOMAIN TryCalls : Resolved(r, i)

\* C26: a 200 response of /scrape-dynamic with a document is sent only
\* after page.close() and then browser.close() of that request resolved,
\* and a request whose extraction succeeded but whose page or browser
\* failed to close is answered with a failure, never with 200
C26_OkOnlyAfterTeardown ==
  \A r \in Slots :
    (Dynamic(r) /\ Responded(r)) =>
      /\ (req[r].res.status = 200 /\ req[r].browser # 0) =>
            /\ req[r].res.body = "document"
            /\ Extracted(r)
            /\ Attempted(r) = <<"page", "browser">>
            /\ ClosesSucceeded(r)
            /\ req[r].browser \notin openBrowsers
            /\ req[r].page \notin openPages
      /\ req[r].res.body = "document" =>
            req[r].res.status = 200 /\ req[r].browser # 0
      /\ (Extracted(r) /\ ~ClosesSucceeded(r)) =>
            /\ req[r].res.status # 200
            /\ req[r].res.body = "error"
            /\ ~req[r].returned

\* the extraction succeeded, the page closed, browser.close() threw, and
\* the request was answered 500
C26_Witness ==
  \E r \in Slots :
    /\ Dynamic(r)
    /\ Responded(r)
    /\ Extracted(r)
    /\ req[r].closes = <<[what |-> "page", ok |-> TRUE],
                         [what |-> "browser", ok |-> FALSE]>>
    /\ req[r].res.status = 500
\* the calls of handleScrape whose request has not settled
InFlightCalls == {i \in DOMAIN ui.calls : ui.calls[i].pc \in {"fetch", "json"}}

\* the inputs that trim to an http or https URL
ScrapableInputs == {"http://example.com", "  https://example.com/docs  "}

\* C27: in the page at most one scrape request is in flight, the Scrape
\* button and the Enter key start nothing while one is, loading is true
\* exactly while a request is in flight and so false after every attempt,
\* and a request is only sent for input that trims to an http or https URL
C27_SingleFlight ==
  /\ Cardinality(InFlightCalls) <= 1
  /\ ui.loading <=> InFlightCalls # {}
  /\ ui.loading => ScrapeButtonDisabled(ui) /\ UrlInputDisabled(ui)
  /\ \A i \in DOMAIN ui.calls :
       /\ ui.calls[i].input \in ScrapableInputs
       /\ ui.calls[i].url \in {"http://example.com",
                                "https://example.com/docs"}
       /\ ui.calls[i].url = trim(ui.calls[i].input)

\* a second request was sent after the first failed, and it succeeded:
\* loading is false again
C27_Witness ==
  /\ Len(ui.calls) = 2
  /\ ui.calls[1].pc = "done" /\ ~ui.calls[1].ok
  /\ ui.calls[2].pc = "done" /\ ui.calls[2].ok
  /\ ui.html
  /\ ~ui.loading
====
